---- MODULE Spec2Model ----
(***************************************************************************)
(* Model of apply_hann_window_lon (src/apply_hanning_window.py): a Hann    *)
(* taper applied along the 'lon' dimension of a DataArray da(time,lat,lon).*)
(*                                                                         *)
(* Representation.  Coordinates, center_lon and window_size are integers   *)
(* (whole degrees / whole samples), for which the float arithmetic of the  *)
(* source is exact.  Hann values are kept in units of 1/HannScale, rounded *)
(* half up; an array's float values are integer numerators over its        *)
(* `scale` field, so a product by the mask is exact.  Python indices are   *)
(* kept 0-based (lon_indices, slice bounds); sequences are 1-based, so     *)
(* element i of a Python array a is a[i + 1] (operator At).                *)
(***************************************************************************)
EXTENDS Integers, Sequences, FiniteSets, TLC

(* ------------------------------ bounds -------------------------------- *)
\* longest longitude axis among the generated inputs
MaxLon == 6
\* largest sample spacing of a generated axis (degrees)
MaxRes == 3
\* generated axes start at 0 or at -WestStart
WestStart == 3
\* sizes of the time and lat dimensions (each is 1 or this)
MaxTime == 2
MaxLat == 2
\* window_size ranges over -NegWindow .. MaxWindow
MaxWindow == 6
NegWindow == 2
\* center_lon ranges from Margin below the smallest to Margin above the
\* largest generated coordinate
Margin == 2

(* ------------------------- numeric helpers ---------------------------- *)
\* abs()
Abs(x) == IF x < 0 THEN -x ELSE x

\* min() as applied by slice normalisation
Min(a, b) == IF a < b THEN a ELSE b

\* a[i] for a Python (0-based) index i
At(a, i) == a[i + 1]

\* int(window_size / 2): true division, then truncation toward zero
TruncHalf(w) == IF w >= 0 THEN w \div 2 ELSE -((-w) \div 2)

\* left_ext = center_lon - int(window_size / 2)
left_ext(c, w) == c - TruncHalf(w)

\* right_ext = center_lon + int(window_size / 2)
right_ext(c, w) == c + TruncHalf(w)

\* lon_resolution = abs(da.lon[0] - da.lon[1])
lon_resolution(lon) == Abs(At(lon, 0) - At(lon, 1))

\* np.arange(start, stop, step), step > 0: ceil((stop - start) / step)
\* values start, start + step, ...
arange(start, stop, step) ==
  LET n == IF stop > start THEN (stop - start + step - 1) \div step ELSE 0
  IN  [k \in 1..n |-> start + (k - 1) * step]

\* mutant helper: the rightmost insertion point (side='right')
RECURSIVE BinSearchRight(_, _, _, _)
BinSearchRight(a, v, lo, hi) ==
  IF lo >= hi THEN lo
  ELSE LET mid == lo + (hi - lo) \div 2
       IN  IF At(a, mid) <= v THEN BinSearchRight(a, v, mid + 1, hi)
           ELSE BinSearchRight(a, v, lo, mid)

\* binary search of np.searchsorted (side='left') for one key: the
\* leftmost 0-based insertion point of v in the ascending array a
RECURSIVE BinSearchLeft(_, _, _, _)
BinSearchLeft(a, v, lo, hi) ==
  IF lo >= hi THEN lo
  ELSE LET mid == lo + (hi - lo) \div 2
       IN  IF At(a, mid) < v THEN BinSearchLeft(a, v, mid + 1, hi)
           ELSE BinSearchLeft(a, v, lo, mid)

\* mutant: side='right' instead of the default side='left'
searchsorted_right(a, vs) ==
  [k \in 1..Len(vs) |-> BinSearchRight(a, vs[k], 0, Len(a))]

\* np.searchsorted(da.lon, values): one insertion point per value
searchsorted(a, vs) ==
  [k \in 1..Len(vs) |-> BinSearchLeft(a, vs[k], 0, Len(a))]

(* ----------------------------- np.hanning ------------------------------ *)
\* Hann values are integers in units of 1/HannScale
HannScale == 100
\* fixed-point unit of the cosine evaluation (2^14)
CosOne == 16384
\* pi in units of 1/CosOne
PiFix == 51472
\* terms of the cosine series after the leading 1
CosTerms == 6

\* x*y in fixed point
MulFix(x, y) == (x * y) \div CosOne

\* the series 1 - x^2/2! + x^4/4! - ..., summed from term k on; t is the
\* magnitude of term k-1 and x2 the square of the argument
RECURSIVE CosSeries(_, _, _)
CosSeries(t, x2, k) ==
  IF k > CosTerms THEN 0
  ELSE LET tk == MulFix(t, x2) \div ((2 * k - 1) * (2 * k))
       IN  (IF k % 2 = 0 THEN tk ELSE -tk) + CosSeries(tk, x2, k + 1)

\* cos(pi * a / d) for 0 <= 2a < d, in units of 1/CosOne
CosFirstOctants(a, d) ==
  LET x == (PiFix * a) \div d
  IN  CosOne + CosSeries(CosOne, MulFix(x, x), 1)

\* cos(pi * n / d) for |n| <= d, in units of 1/CosOne: cos is even,
\* cos(pi - x) = -cos(x), and cos(pi/2) adds nothing to 0.5 in float64
CosPi(n, d) ==
  LET a == Abs(n)
  IN  IF 2 * a > d THEN -CosFirstOctants(d - a, d)
      ELSE IF 2 * a = d THEN 0
      ELSE CosFirstOctants(a, d)

\* 0.5 + 0.5 * cos(pi * n / d), rounded half up to units of 1/HannScale
HannValue(n, d) == ((CosOne + CosPi(n, d)) * HannScale + CosOne) \div (2 * CosOne)

\* mutant: the Hamming curve 0.54 + 0.46 cos = 0.08 + 0.92 hann, whose
\* endpoints are 0.08
hamming(M) ==
  IF M < 1 THEN << >>
  ELSE IF M = 1 THEN << HannScale >>
  ELSE [i \in 1..M |->
          (8 * HannScale + 92 * HannValue(2 * i - 1 - M, M - 1)) \div 100]

\* np.hanning(M): empty for M < 1, ones(1) for M = 1, else
\* 0.5 + 0.5*cos(pi*n/(M-1)) for n = 1-M, 3-M, ..., M-1
hanning(M) ==
  IF M < 1 THEN << >>
  ELSE IF M = 1 THEN << HannScale >>
  ELSE [i \in 1..M |-> HannValue(2 * i - 1 - M, M - 1)]

(* --------------------------- text formatting --------------------------- *)
\* str() of one decimal digit
DigitChar(d) == At(<<"0", "1", "2", "3", "4", "5", "6", "7", "8", "9">>, d)

\* str(n) for n >= 0, as a sequence of characters
RECURSIVE Digits(_)
Digits(n) == IF n < 10 THEN << DigitChar(n) >>
             ELSE Digits(n \div 10) \o << DigitChar(n % 10) >>

\* str(n) of a Python int, as the f-string renders it
Format(n) == IF n < 0 THEN << "-" >> \o Digits(-n) ELSE Digits(n)

\* 'Hanning window of size '
SizeText ==
  << "H", "a", "n", "n", "i", "n", "g", " ", "w", "i", "n", "d", "o", "w",
     " ", "o", "f", " ", "s", "i", "z", "e", " " >>

\* ' applied at '
AppliedAtText == << " ", "a", "p", "p", "l", "i", "e", "d", " ", "a", "t", " " >>

\* mutant: the location printed with its sign, the suffix by center_lon > 0
description_signed(c, w) ==
  SizeText \o Format(w) \o AppliedAtText \o Format(c)
    \o (IF c > 0 THEN << "E" >> ELSE << "W" >>)

\* the f-string of the 'description' attribute
description(c, w) ==
  IF c >= 0
    THEN SizeText \o Format(w) \o AppliedAtText \o Format(c) \o << "E" >>
    ELSE SizeText \o Format(w) \o AppliedAtText \o Format(Abs(c)) \o << "W" >>

(* ------------------------------ the mask ------------------------------- *)
\* hann_filter[lon_indices[0] : lon_indices[-1] + 1]: the slice's bounds
\* after normalisation to the array's length n (the indices are >= 0)
SliceStart(idx, n) == Min(idx[1], n)
SliceStop(idx, n) == Min(idx[Len(idx)] + 1, n)
SliceLen(idx, n) ==
  IF SliceStop(idx, n) > SliceStart(idx, n)
    THEN SliceStop(idx, n) - SliceStart(idx, n) ELSE 0

\* whether an array of shape (m,) can be assigned to a slice of length len:
\* equal lengths, or a single value broadcast to any length
Broadcastable(m, len) == m = len \/ m = 1

\* np.zeros(n) with hann_window assigned to the slice
AssignSlice(n, idx, hw) ==
  [i \in 1..n |->
     IF SliceStart(idx, n) < i /\ i <= SliceStop(idx, n)
       THEN (IF Len(hw) = 1 THEN hw[1] ELSE hw[i - SliceStart(idx, n)])
       ELSE 0]

\* lon_indices = np.searchsorted(da.lon, np.arange(left_ext,
\*                               right_ext + lon_resolution, lon_resolution))
LonIndices(lon, c, w) ==
  searchsorted(lon, arange(left_ext(c, w),
                           right_ext(c, w) + lon_resolution(lon),
                           lon_resolution(lon)))

\* the exception the mask construction raises, "" when it raises none:
\* da.lon[1] on a one-point axis, lon_indices[0] on an empty array of
\* indices, and the slice assignment on a shape mismatch
MaskError(lon, idx, hw) ==
  IF Len(lon) < 2 THEN "IndexError"
  ELSE IF Len(idx) = 0 THEN "IndexError"
  ELSE IF ~Broadcastable(Len(hw), SliceLen(idx, Len(lon))) THEN "ValueError"
  ELSE ""

(* ---------------------------- the DataArray ---------------------------- *)
\* mutant: the filter laid along the lat axis of the product
tile_lat(hann_filter, nt, nla) ==
  [t \in 1..nt |-> [la \in 1..nla |->
     [lo \in 1..Len(hann_filter) |->
        hann_filter[IF la <= Len(hann_filter) THEN la ELSE 1]]]]

\* np.tile(hann_filter, (da.shape[0], da.shape[1], 1))
tile(hann_filter, nt, nla) ==
  [t \in 1..nt |-> [la \in 1..nla |-> hann_filter]]

\* values of da.copy() * hann_filter_full, elementwise
Product(values, full) ==
  [t \in 1..Len(values) |-> [la \in 1..Len(values[t]) |->
     [lo \in 1..Len(values[t][la]) |-> values[t][la][lo] * full[t][la][lo]]]]

\* mutant: the coordinates replaced by default positional ones
default_coords(da) ==
  [time |-> da.coords.time, lat |-> da.coords.lat,
   lon |-> [i \in 1..Len(da.coords.lon) |-> i - 1]]

\* coords=da.coords
result_coords(da) == da.coords

\* the returned DataArray: the product's values under da's name, dims and
\* coords; the product of a DataArray and an ndarray carries no attrs, so
\* the update leaves 'description' as the only attribute
windowed_da(da, hann_filter, c, w) ==
  [name   |-> da.name,
   dims   |-> da.dims,
   coords |-> result_coords(da),
   values |-> Product(da.values,
                      tile(hann_filter, Len(da.values), Len(da.values[1]))),
   scale  |-> da.scale * HannScale,
   attrs  |-> [k \in {"description"} |-> description(c, w)]]

\* mutant: the product written back into the input array as well
store_in_place(h, id, obj) == Append([h EXCEPT ![id] = obj], obj)

\* the heap after the call returns: da.copy() and xr.DataArray(...) allocate
\* new arrays, the array passed in is left as it was
store_result(h, id, obj) == Append(h, obj)

(* ------------------------------- inputs -------------------------------- *)
\* an ascending, uniformly spaced longitude axis of n points
Axis(lon0, res, n) == [i \in 1..n |-> lon0 + (i - 1) * res]

\* the axis [0, 1, ..., 359]
ScenarioAxis == [i \in 1..360 |-> i - 1]

\* field values: positive, zero and negative numbers, different along
\* every dimension
InputValues(nt, nla, n) ==
  [t \in 1..nt |-> [la \in 1..nla |->
     [lo \in 1..n |-> ((7 * t + 3 * la + 5 * lo) % 7) - 3]]]

\* a DataArray da(time, lat, lon) as the caller passes it
InputArray(lon, nt, nla) ==
  [name   |-> "field",
   dims   |-> <<"time", "lat", "lon">>,
   coords |-> [time |-> [t \in 1..nt |-> t - 1],
               lat  |-> [la \in 1..nla |-> 10 * la],
               lon  |-> lon],
   values |-> InputValues(nt, nla, Len(lon)),
   scale  |-> 1,
   attrs  |-> [k \in {"units"} |-> << "K" >>]]

\* the (time, lat) shapes of the generated arrays
Shapes == {1, MaxTime} \X {1, MaxLat}

\* the arrays the function is called on
Inputs ==
  { InputArray(Axis(lon0, res, n), sh[1], sh[2]) :
      lon0 \in {0, -WestStart}, res \in 1..MaxRes, n \in 1..MaxLon,
      sh \in Shapes }
  \cup { InputArray(ScenarioAxis, 1, 1) }

\* the values of center_lon and window_size the function is called with
Centers ==
  ((-WestStart - Margin) .. ((MaxLon - 1) * MaxRes + Margin)) \cup {30, -45}
Windows == (-NegWindow) .. MaxWindow

(* ---------------------------- state machine ---------------------------- *)
\* heap:  the DataArrays that exist, an array's identity being its index;
\*        heap[1] is the caller's input
\* calls: one record per call of apply_hann_window_lon made so far
VARIABLES heap, calls
vars == << heap, calls >>

Init ==
  /\ heap \in { << da >> : da \in Inputs }
  /\ calls = << >>

\* one call apply_hann_window_lon(heap[id], c, w), start to end
Run(id, c, w) ==
  LET da  == heap[id]
      lon == da.coords.lon
      hw  == hanning(w)
      idx == IF Len(lon) < 2 THEN << >> ELSE LonIndices(lon, c, w)
      err == MaskError(lon, idx, hw)
      hf  == IF err = "" THEN AssignSlice(Len(lon), idx, hw) ELSE << >>
  IN  /\ heap' = IF err = "" THEN store_result(heap, id, windowed_da(da, hf, c, w))
                 ELSE heap
      /\ calls' = Append(calls,
                    [da |-> id, center_lon |-> c, window_size |-> w,
                     lon_indices |-> idx, hann_filter |-> hf, error |-> err,
                     result |-> IF err = "" THEN Len(heap) + 1 ELSE 0])

\* the caller applies the window to its input
Call(c, w) ==
  /\ calls = << >>
  /\ Run(1, c, w)

\* the caller feeds the first output back in with the same center_lon and
\* window_size
CallAgain ==
  /\ Len(calls) = 1
  /\ calls[1].error = ""
  /\ Run(calls[1].result, calls[1].center_lon, calls[1].window_size)

Next ==
  \/ \E c \in Centers, w \in Windows : Call(c, w)
  \/ CallAgain

Spec == Init /\ [][Next]_vars

(* ------------------------ vocabulary of the claims --------------------- *)
CallIds == 1..Len(calls)
Returned(k) == calls[k].error = ""
InputOf(k) == heap[calls[k].da]
OutputOf(k) == heap[calls[k].result]
LonOf(k) == InputOf(k).coords.lon
\* first and last matched index of a call that computed lon_indices
FirstIdx(k) == calls[k].lon_indices[1]
LastIdx(k) == calls[k].lon_indices[Len(calls[k].lon_indices)]
InAxis(k, i) == 0 <= i /\ i < Len(LonOf(k))
\* the window [left_ext, right_ext] lies inside the axis of call k
WindowInside(k) ==
  /\ Len(LonOf(k)) >= 1
  /\ left_ext(calls[k].center_lon, calls[k].window_size) >= LonOf(k)[1]
  /\ right_ext(calls[k].center_lon, calls[k].window_size)
       <= LonOf(k)[Len(LonOf(k))]
\* the Hann curves whose values are short decimals
KnownCurve(w) ==
  CASE w = 1 -> << HannScale >>
    [] w = 3 -> << 0, HannScale, 0 >>
    [] w = 5 -> << 0, HannScale \div 2, HannScale, HannScale \div 2, 0 >>
    [] OTHER -> hanning(w)
\* sub occurs in s as a contiguous run
Contains(s, sub) ==
  \E i \in 0..(Len(s) - Len(sub)) : SubSeq(s, i + 1, i + Len(sub)) = sub
\* the number a run of decimal digits denotes, -1 if it holds anything else
RECURSIVE DecimalValue(_)
DecimalValue(s) ==
  IF s = << >> THEN 0
  ELSE LET last == s[Len(s)]
           rest == DecimalValue(SubSeq(s, 1, Len(s) - 1))
           d == CHOOSE x \in 0..9 : DigitChar(x) = last
       IN  IF rest < 0 \/ ~(\E x \in 0..9 : DigitChar(x) = last) THEN -1
           ELSE 10 * rest + d

(* --------------------------------- C1 ---------------------------------- *)
\* C1: on an axis [0, 1, ..., N-1] (N >= 2), for odd window_size w and
\* on-axis center_lon c with c - floor(w/2) >= 0 and c + floor(w/2) <= N-1,
\* the call builds a mask that is 0 outside indices c-floor(w/2)..c+floor(w/2)
\* and holds the w-point Hann curve, in order, inside; for N = 360, c = 10,
\* w = 5 the mask is [0, 0.5, 1, 0.5, 0] at indices 8..12 and 0 elsewhere.
C1_MaskOnUnitAxis ==
  \A k \in CallIds :
    LET c == calls[k].center_lon
        w == calls[k].window_size
        n == Len(LonOf(k))
        h == w \div 2
        hf == calls[k].hann_filter
    IN  (n >= 2 /\ LonOf(k) = Axis(0, 1, n) /\ w >= 1 /\ w % 2 = 1
         /\ c - h >= 0 /\ c + h <= n - 1)
        => /\ Returned(k)
           /\ Len(hf) = n
           /\ \A i \in 0..(n - 1) :
                At(hf, i) = IF c - h <= i /\ i <= c + h
                              THEN At(KnownCurve(w), i - (c - h)) ELSE 0
           /\ (n = 360 /\ c = 10 /\ w = 5)
              => /\ At(hf, 8) = 0 /\ 2 * At(hf, 9) = HannScale
                 /\ At(hf, 10) = HannScale
                 /\ 2 * At(hf, 11) = HannScale /\ At(hf, 12) = 0
                 /\ \A i \in 0..359 : (i < 8 \/ i > 12) => At(hf, i) = 0

C1_Witness ==
  \E k \in CallIds :
    /\ LonOf(k) = ScenarioAxis
    /\ calls[k].center_lon = 10 /\ calls[k].window_size = 5
    /\ Returned(k)
    /\ At(calls[k].hann_filter, 10) = HannScale

(* --------------------------------- C2 ---------------------------------- *)
\* C2: whenever a call returns, the output has the input's shape, dimension
\* names (in order) and coordinate labels, and each output value is the
\* input value at the same (time, lat, lon) times the mask value at that
\* lon index, the same mask for every time and lat.
C2_OutputIsInputTimesMask ==
  \A k \in CallIds :
    Returned(k) =>
      LET in == InputOf(k)
          out == OutputOf(k)
          hf == calls[k].hann_filter
      IN  /\ out.dims = in.dims
          /\ out.coords = in.coords
          /\ out.name = in.name
          /\ Len(out.values) = Len(in.values)
          /\ out.scale = in.scale * HannScale
          /\ \A t \in 1..Len(in.values) :
               /\ Len(out.values[t]) = Len(in.values[t])
               /\ \A la \in 1..Len(in.values[t]) :
                    /\ Len(out.values[t][la]) = Len(in.values[t][la])
                    /\ \A lo \in 1..Len(in.values[t][la]) :
                         out.values[t][la][lo] = in.values[t][la][lo] * hf[lo]

C2_Witness ==
  \E k \in CallIds :
    /\ Returned(k)
    /\ Len(InputOf(k).values) = 2 /\ Len(InputOf(k).values[1]) = 2
    /\ calls[k].window_size = 5
    /\ \E lo \in 1..Len(LonOf(k)) :
         /\ calls[k].hann_filter[lo] = HannScale \div 2
         /\ OutputOf(k).values[2][1][lo] # 0
         /\ OutputOf(k).values[2][1][lo] # OutputOf(k).values[1][2][lo]

(* --------------------------------- C3 ---------------------------------- *)
\* C3 as stated, on the calls whose window lies inside the axis: for every
\* window_size >= 1 for which the call builds a mask, the mask value at the
\* first matched index and the mask value at the last matched index are
\* both exactly 0.
C3_EndpointsZero ==
  \A k \in CallIds :
    (Returned(k) /\ calls[k].window_size >= 1 /\ WindowInside(k))
    => /\ InAxis(k, FirstIdx(k)) /\ At(calls[k].hann_filter, FirstIdx(k)) = 0
       /\ InAxis(k, LastIdx(k)) /\ At(calls[k].hann_filter, LastIdx(k)) = 0

\* C3 amended: for every window_size >= 2 for which the call builds a mask,
\* the mask value at the first matched index and the mask value at the last
\* index the curve is assigned to (the last matched index, or the last axis
\* index when the search returned the axis length) are both exactly 0; for
\* window_size = 1 the one value assigned, if any, is 1.
C3_EndpointsZeroFromTwo ==
  \A k \in CallIds :
    LET w == calls[k].window_size
        hf == calls[k].hann_filter
        n == Len(LonOf(k))
    IN  /\ (Returned(k) /\ w >= 2)
           => /\ InAxis(k, FirstIdx(k)) /\ At(hf, FirstIdx(k)) = 0
              /\ At(hf, Min(LastIdx(k), n - 1)) = 0
              /\ LastIdx(k) <= n
        /\ (Returned(k) /\ w = 1 /\ InAxis(k, FirstIdx(k)))
           => At(hf, FirstIdx(k)) = HannScale

C3_Witness ==
  \E k \in CallIds :
    /\ Returned(k) /\ calls[k].window_size >= 3
    /\ InAxis(k, LastIdx(k))
    /\ At(calls[k].hann_filter, FirstIdx(k) + 1) > 0
    /\ At(calls[k].hann_filter, LastIdx(k)) = 0

(* --------------------------------- C4 ---------------------------------- *)
\* C4: when the first output is fed back in with the same center_lon and
\* window_size, the second call returns, computes the mask the first call
\* computed, and its output is at every position the input value times the
\* square of the mask value, i.e. the first output times the mask.
C4_TwiceIsSquare ==
  Len(calls) = 2 =>
    LET in == InputOf(1)
        once == OutputOf(1)
        hf == calls[1].hann_filter
    IN  /\ calls[2].da = calls[1].result
        /\ Returned(2)
        /\ calls[2].hann_filter = hf
        /\ calls[2].lon_indices = calls[1].lon_indices
        /\ OutputOf(2).scale = in.scale * HannScale * HannScale
        /\ \A t \in 1..Len(in.values) : \A la \in 1..Len(in.values[t]) :
             \A lo \in 1..Len(in.values[t][la]) :
               /\ OutputOf(2).values[t][la][lo]
                    = in.values[t][la][lo] * hf[lo] * hf[lo]
               /\ OutputOf(2).values[t][la][lo]
                    = once.values[t][la][lo] * hf[lo]

C4_Witness ==
  /\ Len(calls) = 2 /\ Returned(2)
  /\ LonOf(1)[1] # 0
  /\ \E lo \in 1..Len(LonOf(1)) :
       /\ calls[1].hann_filter[lo] > 0 /\ calls[1].hann_filter[lo] < HannScale
       /\ OutputOf(2).values[1][1][lo] # 0

(* --------------------------------- C5 ---------------------------------- *)
\* C5: a call, whether it returns or fails, leaves every array that existed
\* before it (the input among them) with the values, coordinates and
\* attributes it had, and a returned array is a new array, distinct from
\* every array that existed before the call.
C5_InputUnchanged ==
  [][ /\ \A id \in 1..Len(heap) : id \in 1..Len(heap') /\ heap'[id] = heap[id]
      /\ Len(calls') = Len(calls) + 1
      /\ LET cl == calls'[Len(calls')]
         IN  IF cl.error = ""
               THEN /\ cl.result \notin 1..Len(heap)
                    /\ cl.result \in 1..Len(heap')
                    /\ cl.result # cl.da
               ELSE heap' = heap /\ cl.result = 0 ]_vars

C5_Witness ==
  \E k \in CallIds :
    /\ Returned(k)
    /\ OutputOf(k).values # InputOf(k).values
    /\ InputOf(k).values = InputValues(Len(InputOf(k).values),
                                       Len(InputOf(k).values[1]),
                                       Len(LonOf(k)))

(* --------------------------------- C6 ---------------------------------- *)
\* C6: when the window [center_lon - floor(w/2), center_lon + floor(w/2)]
\* extends below the first or above the last longitude coordinate, the call
\* fails with an error and returns no array, for every window_size >= 1.
C6_OutOfRangeFails ==
  \A k \in CallIds :
    (calls[k].window_size >= 1 /\ ~WindowInside(k))
    => (~Returned(k) /\ calls[k].result = 0)

(* --------------------------------- C7 ---------------------------------- *)
\* C7: when window_size is <= 0 or larger than the longitude axis length,
\* the call fails with an error and returns no array, for every center_lon.
C7_InvalidSizeFails ==
  \A k \in CallIds :
    (calls[k].window_size <= 0 \/ calls[k].window_size > Len(LonOf(k)))
    => (~Returned(k) /\ calls[k].result = 0)

(* --------------------------------- C8 ---------------------------------- *)
\* C8: the 'description' attribute of a returned array is 'Hanning window
\* of size <window_size> applied at <center_lon>E' when center_lon >= 0
\* (0 included) and '... applied at <|center_lon|>W' when center_lon < 0:
\* a center of 30 gives text containing '30E', a center of -45 text
\* containing '45W', and the location is printed as digits only, with no
\* minus sign before it.
C8_Description ==
  \A k \in CallIds :
    Returned(k) =>
      LET c == calls[k].center_lon
          w == calls[k].window_size
          at == Len(SizeText) + Len(Format(w)) + Len(AppliedAtText)
          d == OutputOf(k).attrs["description"]
          loc == SubSeq(d, at + 1, Len(d) - 1)
      IN  /\ "description" \in DOMAIN OutputOf(k).attrs
          /\ Len(d) > at + 1
          /\ SubSeq(d, 1, at) = SizeText \o Format(w) \o AppliedAtText
          /\ DecimalValue(loc) = Abs(c)
          /\ d[at] = " "
          /\ d[Len(d)] = IF c >= 0 THEN "E" ELSE "W"
          /\ (c = 30) => Contains(d, << "3", "0", "E" >>)
          /\ (c = -45) => Contains(d, << "4", "5", "W" >>)

C8_Witness ==
  \E k \in CallIds :
    /\ Returned(k) /\ WindowInside(k)
    /\ calls[k].center_lon < 0 /\ calls[k].window_size = 3
    /\ Contains(OutputOf(k).attrs["description"], << " ", "2", "W" >>)

(* --------------------------------- C9 ---------------------------------- *)
\* C9: on an ascending, uniformly spaced axis (any spacing), for every
\* window_size from 1 to the axis length and every center_lon whose window
\* lies inside the axis, the span [first matched index, last matched index]
\* holds exactly window_size indices.
C9_SpanHoldsWindowSize ==
  \A k \in CallIds :
    LET w == calls[k].window_size
    IN  (Len(LonOf(k)) >= 2 /\ w >= 1 /\ w <= Len(LonOf(k)) /\ WindowInside(k))
        => /\ Len(calls[k].lon_indices) > 0
           /\ LastIdx(k) - FirstIdx(k) + 1 = w

(* --------------------------------- C10 --------------------------------- *)
\* C10: whenever the call builds a mask, the mask is as long as the
\* longitude axis, every value v has 0 <= v <= 1, every index outside
\* [first matched index, last matched index] holds exactly 0, and
\* mask[first + j] = mask[last - j] for every j (compared wherever both
\* indices are indices of the mask).
C10_MaskShape ==
  \A k \in CallIds :
    Returned(k) =>
      LET hf == calls[k].hann_filter
          n == Len(LonOf(k))
      IN  /\ Len(hf) = n
          /\ \A i \in 0..(n - 1) :
               /\ 0 <= At(hf, i) /\ At(hf, i) <= HannScale
               /\ (i < FirstIdx(k) \/ i > LastIdx(k)) => At(hf, i) = 0
          /\ \A j \in 0..(LastIdx(k) - FirstIdx(k)) :
               (InAxis(k, FirstIdx(k) + j) /\ InAxis(k, LastIdx(k) - j))
               => At(hf, FirstIdx(k) + j) = At(hf, LastIdx(k) - j)

====
